---- MODULE Spec2Model ----
(***************************************************************************)
(* Worker pool of the parallel image processing system (worker.py), with   *)
(* the filters (filters.py) and the image buffer (pgm_image.py) it uses.   *)
(*                                                                         *)
(* One job run of main_worker is modelled from the point where the image   *)
(* has been received and the mode in effect is known (worker.py:303): the  *)
(* owner thread runs create_tasks, start_threads, qsize,                   *)
(* wait_for_completion, assemble_result, stop_threads and save_to_file,    *)
(* and each WorkerThread runs the loop of WorkerThread.run.  Every access  *)
(* to a shared object (queue, semaphores, locks, result store, running     *)
(* flags) is a step of its own, so that every interleaving of the owner    *)
(* and the workers is a behaviour of Spec.                                 *)
(*                                                                         *)
(* PartSpec runs create_tasks alone over larger heights and worker counts. *)
(***************************************************************************)
EXTENDS Integers, Sequences, FiniteSets

VARIABLES
    image,          \* the source image: [w, h, maxv, data]
    mode, t1, t2,   \* the mode and thresholds in effect for the job
    nthreads,       \* ParallelImageProcessor.nthreads
    task_queue,     \* ParallelImageProcessor.task_queue (FIFO of Task)
    semaphore,      \* value of the available-work semaphore
    completion_semaphore, \* value of the completed-work semaphore
    result_data,    \* the result store: row index -> row bytes
    locked,         \* lock object -> held?
    pc,             \* worker -> position in WorkerThread.run
    running,        \* worker -> WorkerThread.running
    task,           \* worker -> the Task it dequeued
    processed_data, \* worker -> bytes returned by process_image_rows
    ins_i,          \* worker -> index i of the row-insert loop
    ownerPc,        \* position of the owner thread in main_worker
    loop_i,         \* counter of the owner's current loop
    task_count,     \* number of tasks create_tasks enqueued
    total_tasks,    \* main_worker's total_tasks (queue size it read)
    result_image,   \* data of the image being assembled
    missing,        \* rows assemble_result found absent from the store
    raised,         \* number of exceptions caught in WorkerThread.run
    saved,          \* has save_to_file written the output image?
    exit_status,    \* exit status of the consumer process (NoExit: running)
    fetch_count,    \* history: task row_start -> times it was dequeued
    released,       \* history: completion units released by workers
    injected,       \* history: shutdown units released by stop_threads
    fifo_exists,    \* does the named pipe exist in the file system?
    fifo,           \* bytes written to the pipe and not read yet
    writer,         \* write end: "none", "waiting" (in open), "open", "closed"
    reader,         \* read end: "none", "waiting" (in open), "open", "closed"
    senderPc,       \* position of the producer process in main_sender
    sender_exit,    \* exit status of the producer process
    s_image,        \* the image the producer loaded
    s_mode, s_t1, s_t2,         \* arguments of send_image_data
    mode_arg, t1_arg, t2_arg,   \* arguments of main_worker
    received,       \* mode, t1, t2 returned by receive_image_data
    sent_bytes,     \* history: number of bytes written to the pipe
    io_error,       \* history: a write of the producer failed
    recv_error,     \* history: the error receive_image_data raised
    fn_in,          \* input of the function under test (FilterSpec, HeaderSpec)
    fn_out          \* its result

vars == <<image, mode, t1, t2, nthreads, task_queue, semaphore,
          completion_semaphore, result_data, locked, pc, running, task,
          processed_data, ins_i, ownerPc, loop_i, task_count, total_tasks,
          result_image, missing, raised, saved, exit_status,
          fetch_count, released, injected,
          fifo_exists, fifo, writer, reader, senderPc, sender_exit,
          s_image, s_mode, s_t1, s_t2, mode_arg, t1_arg, t2_arg,
          received, sent_bytes, io_error, recv_error, fn_in, fn_out>>

jobVars == <<image, mode, t1, t2, nthreads>>

pipeVars == <<fifo_exists, fifo, writer, reader, senderPc, sender_exit,
              s_image, s_mode, s_t1, s_t2, mode_arg, t1_arg, t2_arg,
              received, sent_bytes, io_error, recv_error>>

funVars == <<fn_in, fn_out>>

argVars == <<s_image, s_mode, s_t1, s_t2, mode_arg, t1_arg, t2_arg>>

workVars == <<task_queue, semaphore, completion_semaphore, result_data,
              locked, pc, running, task, processed_data, ins_i, loop_i,
              task_count, total_tasks, result_image, missing, raised, saved,
              fetch_count, released, injected>>

poolVars == <<task_queue, semaphore, completion_semaphore, result_data,
              locked, pc, running, task, processed_data, ins_i, ownerPc,
              loop_i, task_count, total_tasks, result_image, missing, raised,
              saved, exit_status, fetch_count, released, injected>>

-----------------------------------------------------------------------------
(* Bounds of the model *)

MaxH == 3          \* heights 0..MaxH in Spec
MaxW == 2          \* widths 1..MaxW in Spec
MaxN == 2          \* worker counts 1..MaxN in Spec
MaxWork == 6       \* height * worker count <= MaxWork in Spec
MaxPartH == 33     \* heights 0..MaxPartH in PartSpec
MaxPartN == 3      \* worker counts 1..MaxPartN in PartSpec
MaxFilterH == 2    \* heights 1..MaxFilterH of the larger images in FilterSpec
MaxRawLen == 26    \* lengths 0..MaxRawLen of the byte strings in HeaderSpec
MaxPipeH == 1      \* heights 0..MaxPipeH in PipeSpec
MaxPipeN == 2      \* worker counts 1..MaxPipeN in PipeSpec
MaxPipeWork == 2   \* height * worker count <= MaxPipeWork in PipeSpec

(* Program constants *)

TasksPerThread == 4    \* worker.py:306
MaxSample == 255       \* filters.py:33, filters.py:66
NoExit == -1           \* the process has not exited
HeaderSize == 24       \* sender.py:49, worker.py:240
None == -1             \* an argument that was not given (Python None)

Min(a, b) == IF a < b THEN a ELSE b
Max(a, b) == IF a > b THEN a ELSE b

NoTask == [row_start |-> 0, row_end |-> 0]

-----------------------------------------------------------------------------
(* pgm_image.py *)

\* PGMImage.get_pixel: 0 outside the image, else data[y*w + x] (0-based)
get_pixel(img, x, y) ==
    IF x < 0 \/ x >= img.w \/ y < 0 \/ y >= img.h
    THEN 0
    ELSE img.data[y * img.w + x + 1]

\* PGMImage.set_pixel_row on a buffer of an image w x h: the slice
\* [row*w, row*w + w) is replaced, unless the row is out of range or the
\* data has not exactly w bytes, in which case nothing changes
set_pixel_rowNoop(buf, w, h, row, data) == buf
set_pixel_row(buf, w, h, row, data) ==
    IF row < 0 \/ row >= h \/ Len(data) # w
    THEN buf
    ELSE [k \in 1..Len(buf) |->
            IF k > row * w /\ k <= row * w + w THEN data[k - row * w]
            ELSE buf[k]]

\* bytearray(n): n zero bytes
bytearray(n) == [k \in 1..n |-> 0]

-----------------------------------------------------------------------------
(* filters.py *)

\* the x-loop of apply_negative_filter for one row y
negative_rowMaxv(img, y) == [k \in 1..img.w |-> img.maxv - get_pixel(img, k - 1, y)]
negative_row(img, y) == [k \in 1..img.w |-> MaxSample - get_pixel(img, k - 1, y)]

RECURSIVE apply_negative_filter(_, _, _)
apply_negative_filter(img, row_start, row_end) ==
    IF row_start >= row_end THEN <<>>
    ELSE negative_row(img, row_start)
            \o apply_negative_filter(img, row_start + 1, row_end)

\* the pointwise transform of apply_slice_filter
slice_pixelStrict(original_pixel, a, b) ==
    IF original_pixel < a \/ original_pixel > b THEN MaxSample
    ELSE original_pixel
slice_pixel(original_pixel, a, b) ==
    IF original_pixel <= a \/ original_pixel >= b THEN MaxSample
    ELSE original_pixel

slice_row(img, y, a, b) ==
    [k \in 1..img.w |-> slice_pixel(get_pixel(img, k - 1, y), a, b)]

RECURSIVE apply_slice_filter(_, _, _, _, _)
apply_slice_filter(img, row_start, row_end, a, b) ==
    IF row_start >= row_end THEN <<>>
    ELSE slice_row(img, row_start, a, b)
            \o apply_slice_filter(img, row_start + 1, row_end, a, b)

\* process_image_rows: ok = FALSE stands for the ValueError it raises
process_image_rows(img, row_start, row_end, m, a, b) ==
    IF m = 0 THEN [ok |-> TRUE, data |-> apply_negative_filter(img, row_start, row_end)]
    ELSE IF m = 1 THEN [ok |-> TRUE, data |-> apply_slice_filter(img, row_start, row_end, a, b)]
    ELSE [ok |-> FALSE, data |-> <<>>]

-----------------------------------------------------------------------------
(* sender.py: ImageHeader *)

\* struct format '<I': one unsigned 32-bit integer, little-endian
pack_u32Low(v) ==
    <<v % 256, (v \div 256) % 256, (v \div 65536) % 256, 0>>
pack_u32(v) ==
    <<v % 256, (v \div 256) % 256, (v \div 65536) % 256, (v \div 16777216) % 256>>

unpack_u32(b) == b[1] + 256 * b[2] + 65536 * b[3] + 16777216 * b[4]

\* a value struct.pack accepts for 'I': 0 <= v < 2^32
IsU32(v) == v >= 0 /\ v \div 65536 < 65536

\* ImageHeader.pack: struct.pack('<6I', w, h, maxv, mode, t1, t2);
\* ok = FALSE stands for the struct.error of a field out of range
pack(hd) ==
    IF \A v \in {hd.w, hd.h, hd.maxv, hd.mode, hd.t1, hd.t2} : IsU32(v)
    THEN [ok |-> TRUE,
          data |-> pack_u32(hd.w) \o pack_u32(hd.h) \o pack_u32(hd.maxv)
                    \o pack_u32(hd.mode) \o pack_u32(hd.t1) \o pack_u32(hd.t2)]
    ELSE [ok |-> FALSE, data |-> <<>>]

\* ImageHeader.unpack: ValueError (ok = FALSE) unless len(data) == 24
unpack(data) ==
    IF Len(data) # HeaderSize
    THEN [ok |-> FALSE]
    ELSE [ok |-> TRUE,
          w |-> unpack_u32(SubSeq(data, 1, 4)),
          h |-> unpack_u32(SubSeq(data, 5, 8)),
          maxv |-> unpack_u32(SubSeq(data, 9, 12)),
          mode |-> unpack_u32(SubSeq(data, 13, 16)),
          t1 |-> unpack_u32(SubSeq(data, 17, 20)),
          t2 |-> unpack_u32(SubSeq(data, 21, 24))]

-----------------------------------------------------------------------------
(* worker.py: the partitioner *)

\* main_worker: rows_per_task = max(1, image.h // (nthreads * 4))
rows_per_task(h, n) == Max(1, h \div (n * TasksPerThread))

\* create_tasks: row_end = min(row_start + rows_per_task, image_height)
TaskRowEndNoMin(row_start, rpt, image_height) == row_start + rpt
TaskRowEnd(row_start, rpt, image_height) == Min(row_start + rpt, image_height)

\* the while loop of create_tasks: the tasks put on the queue, in order
RECURSIVE create_tasks_from(_, _, _)
\* (the loop written as do ... while: one task is made before the test)
create_tasks_fromDoWhile(row_start, image_height, rpt) ==
    LET row_end == TaskRowEnd(row_start, rpt, image_height)
    IN  <<[row_start |-> row_start, row_end |-> row_end]>>
            \o (IF row_end < image_height
                THEN create_tasks_from(row_end, image_height, rpt)
                ELSE <<>>)
create_tasks_from(row_start, image_height, rpt) ==
    IF row_start < image_height
    THEN LET row_end == TaskRowEnd(row_start, rpt, image_height)
         IN  <<[row_start |-> row_start, row_end |-> row_end]>>
                \o create_tasks_from(row_end, image_height, rpt)
    ELSE <<>>

-----------------------------------------------------------------------------
(* worker.py: the objects of the pool *)

Workers == 0..(nthreads - 1)

\* the lock objects: the pool's mutex and the one each worker constructs
\* (locks are numbered: -1 is ParallelImageProcessor.mutex, w >= 0 is the
\* lock WorkerThread w holds in self.mutex)
PoolMutex == -1
Locks == {PoolMutex} \cup Workers

\* WorkerThread.__init__: self.mutex = threading.Lock(), a lock of its own;
\* the mutex argument is not used
WorkerMutex(w) == w

\* Queue.get: the queue after its first task has been taken
DequeuePeek(q) == q
Dequeue(q) == Tail(q)

\* WorkerThread.run: the rows of range(task.row_start, task.row_end)
RowsToInsertShort(t) == t.row_end - t.row_start - 1
RowsToInsert(t) == t.row_end - t.row_start

\* stop_threads: for _ in range(self.nthreads): self.semaphore.release()
ShutdownUnitsShort(n) == n - 1
ShutdownUnits(n) == n

\* the sample patterns of the input images
Pix == <<10, 20, 30, 40, 0, 255>>
TestData(w, h) == [k \in 1..(w * h) |-> Pix[((k - 1) % Len(Pix)) + 1]]

Images(hs) ==
    { [w |-> w, h |-> h, maxv |-> 255, data |-> TestData(w, h)] :
        w \in 1..MaxW, h \in hs }

Modes == {0, 1, 2}
Thresholds == {<<20, 40>>}

-----------------------------------------------------------------------------
(* State after ParallelImageProcessor(nthreads) has been constructed *)

InitPoolState ==
    /\ task_queue = <<>>
    /\ semaphore = 0
    /\ completion_semaphore = 0
    /\ result_data = [r \in {} |-> <<>>]
    /\ locked = [l \in Locks |-> FALSE]
    /\ pc = [w \in Workers |-> "unstarted"]
    /\ running = [w \in Workers |-> TRUE]
    /\ task = [w \in Workers |-> NoTask]
    /\ processed_data = [w \in Workers |-> <<>>]
    /\ ins_i = [w \in Workers |-> 0]
    /\ loop_i = 0
    /\ task_count = 0
    /\ total_tasks = 0
    /\ result_image = <<>>
    /\ missing = {}
    /\ raised = 0
    /\ saved = FALSE
    /\ exit_status = NoExit
    /\ fetch_count = [r \in {} |-> 0]
    /\ released = 0
    /\ injected = 0

\* main_worker is about to call create_tasks on the new pool
InitPool ==
    /\ InitPoolState
    /\ ownerPc = "create_tasks"

\* the function variables when no function is under test
NoFn == [done |-> FALSE]

InitFun ==
    /\ fn_in = NoFn
    /\ fn_out = NoFn

\* the pipe and the producer once a job was handed over: the producer sent
\* the image with main_sender's mode 0 and has exited, the consumer was
\* called with the mode and thresholds in effect
PipeDone ==
    /\ fifo_exists = TRUE
    /\ fifo = <<>>
    /\ writer = "closed"
    /\ reader = "closed"
    /\ senderPc = "done"
    /\ sender_exit = 0
    /\ s_image = image
    /\ s_mode = 0
    /\ s_t1 = 0
    /\ s_t2 = 0
    /\ mode_arg = mode
    /\ t1_arg = t1
    /\ t2_arg = t2
    /\ received = [mode |-> 0, t1 |-> 0, t2 |-> 0]
    /\ sent_bytes = HeaderSize + image.w * image.h
    /\ io_error = FALSE
    /\ recv_error = "none"

Init ==
    /\ image \in Images(0..MaxH)
    /\ mode \in Modes
    /\ \E th \in Thresholds : t1 = th[1] /\ t2 = th[2]
    /\ nthreads \in 1..MaxN
    /\ image.h * nthreads <= MaxWork
    /\ InitPool
    /\ PipeDone
    /\ InitFun

-----------------------------------------------------------------------------
(* WorkerThread.run, worker w *)

\* while self.running:
WCheck(w) ==
    /\ pc[w] = "check"
    /\ pc' = [pc EXCEPT ![w] = IF running[w] THEN "acquire" ELSE "finished"]
    /\ UNCHANGED <<jobVars, pipeVars, funVars, fetch_count, released, injected, task_queue, semaphore, completion_semaphore,
                   result_data, locked, running, task, processed_data, ins_i,
                   ownerPc, loop_i, task_count, total_tasks, result_image,
                   missing, raised, saved, exit_status>>

\* self.semaphore.acquire(): blocks while the value is 0
WAcquire(w) ==
    /\ pc[w] = "acquire"
    /\ semaphore > 0
    /\ semaphore' = semaphore - 1
    /\ pc' = [pc EXCEPT ![w] = "get"]
    /\ UNCHANGED <<jobVars, pipeVars, funVars, fetch_count, released, injected, task_queue, completion_semaphore,
                   result_data, locked, running, task, processed_data, ins_i,
                   ownerPc, loop_i, task_count, total_tasks, result_image,
                   missing, raised, saved, exit_status>>

\* task = self.task_queue.get(timeout=0.1), a task is there
WGet(w) ==
    /\ pc[w] = "get"
    /\ task_queue # <<>>
    /\ task' = [task EXCEPT ![w] = Head(task_queue)]
    /\ task_queue' = Dequeue(task_queue)
    /\ pc' = [pc EXCEPT ![w] = "process"]
    /\ fetch_count' =
          LET rs == Head(task_queue).row_start
          IN  [r \in DOMAIN fetch_count \cup {rs} |->
                  IF r = rs
                  THEN (IF rs \in DOMAIN fetch_count THEN fetch_count[rs] ELSE 0) + 1
                  ELSE fetch_count[r]]
    /\ UNCHANGED <<jobVars, pipeVars, funVars, released, injected, semaphore, completion_semaphore,
                   result_data, locked, running, processed_data, ins_i,
                   ownerPc, loop_i, task_count, total_tasks, result_image,
                   missing, raised, saved, exit_status>>

\* the get times out on the empty queue (nothing is put after create_tasks):
\* except Empty: self.semaphore.release(); continue
WEmptyNoRelease(w) ==
    /\ pc[w] = "get"
    /\ task_queue = <<>>
    /\ pc' = [pc EXCEPT ![w] = "check"]
    /\ UNCHANGED <<jobVars, pipeVars, funVars, fetch_count, released, injected, task_queue, semaphore, completion_semaphore,
                   result_data, locked, running, task, processed_data, ins_i,
                   ownerPc, loop_i, task_count, total_tasks, result_image,
                   missing, raised, saved, exit_status>>
WEmpty(w) ==
    /\ pc[w] = "get"
    /\ task_queue = <<>>
    /\ semaphore' = semaphore + 1
    /\ pc' = [pc EXCEPT ![w] = "check"]
    /\ UNCHANGED <<jobVars, pipeVars, funVars, fetch_count, released, injected, task_queue, completion_semaphore,
                   result_data, locked, running, task, processed_data, ins_i,
                   ownerPc, loop_i, task_count, total_tasks, result_image,
                   missing, raised, saved, exit_status>>

\* processed_data = process_image_rows(...) returns
WProcessInPlace(w) ==
    /\ pc[w] = "process"
    /\ LET r == process_image_rows(image, task[w].row_start, task[w].row_end,
                                   mode, t1, t2)
           lo == task[w].row_start * image.w
       IN  /\ r.ok
           /\ processed_data' = [processed_data EXCEPT ![w] = r.data]
           /\ image' = [image EXCEPT !.data =
                  [k \in 1..Len(image.data) |->
                      IF k > lo /\ k <= lo + Len(r.data)
                      THEN r.data[k - lo] ELSE image.data[k]]]
    /\ pc' = [pc EXCEPT ![w] = "lock"]
    /\ UNCHANGED <<mode, t1, t2, nthreads, pipeVars, funVars, fetch_count, released, injected, task_queue, semaphore, completion_semaphore,
                   result_data, locked, running, task, ins_i,
                   ownerPc, loop_i, task_count, total_tasks, result_image,
                   missing, raised, saved, exit_status>>
WProcess(w) ==
    /\ pc[w] = "process"
    /\ LET r == process_image_rows(image, task[w].row_start, task[w].row_end,
                                   mode, t1, t2)
       IN  /\ r.ok
           /\ processed_data' = [processed_data EXCEPT ![w] = r.data]
    /\ pc' = [pc EXCEPT ![w] = "lock"]
    /\ UNCHANGED <<jobVars, pipeVars, funVars, fetch_count, released, injected, task_queue, semaphore, completion_semaphore,
                   result_data, locked, running, task, ins_i,
                   ownerPc, loop_i, task_count, total_tasks, result_image,
                   missing, raised, saved, exit_status>>

\* process_image_rows raises: except Exception: self.semaphore.release(),
\* and the loop goes on (the dequeued task is dropped)
WRaise(w) ==
    /\ pc[w] = "process"
    /\ ~ process_image_rows(image, task[w].row_start, task[w].row_end,
                            mode, t1, t2).ok
    /\ semaphore' = semaphore + 1
    /\ raised' = raised + 1
    /\ task' = [task EXCEPT ![w] = NoTask]
    /\ pc' = [pc EXCEPT ![w] = "check"]
    /\ UNCHANGED <<jobVars, pipeVars, funVars, fetch_count, released, injected, task_queue, completion_semaphore,
                   result_data, locked, running, processed_data, ins_i,
                   ownerPc, loop_i, task_count, total_tasks, result_image,
                   missing, saved, exit_status>>

\* with self.mutex: (enter)
WLock(w) ==
    /\ pc[w] = "lock"
    /\ ~ locked[WorkerMutex(w)]
    /\ locked' = [locked EXCEPT ![WorkerMutex(w)] = TRUE]
    /\ ins_i' = [ins_i EXCEPT ![w] = 0]
    /\ pc' = [pc EXCEPT ![w] = "insert"]
    /\ UNCHANGED <<jobVars, pipeVars, funVars, fetch_count, released, injected, task_queue, semaphore, completion_semaphore,
                   result_data, running, task, processed_data,
                   ownerPc, loop_i, task_count, total_tasks, result_image,
                   missing, raised, saved, exit_status>>

\* one iteration of the row loop:
\* self.result_data[row] = processed_data[i*w:(i+1)*w]
WInsert(w) ==
    /\ pc[w] = "insert"
    /\ ins_i[w] < RowsToInsert(task[w])
    /\ LET i == ins_i[w]
           row == task[w].row_start + i
           row_data == SubSeq(processed_data[w], i * image.w + 1, (i + 1) * image.w)
       IN  result_data' = [r \in DOMAIN result_data \cup {row} |->
                              IF r = row THEN row_data ELSE result_data[r]]
    /\ ins_i' = [ins_i EXCEPT ![w] = ins_i[w] + 1]
    /\ UNCHANGED <<jobVars, pipeVars, funVars, fetch_count, released, injected, task_queue, semaphore, completion_semaphore,
                   locked, pc, running, task, processed_data,
                   ownerPc, loop_i, task_count, total_tasks, result_image,
                   missing, raised, saved, exit_status>>

\* with self.mutex: (exit), after the last row
WUnlock(w) ==
    /\ pc[w] = "insert"
    /\ ins_i[w] = RowsToInsert(task[w])
    /\ locked' = [locked EXCEPT ![WorkerMutex(w)] = FALSE]
    /\ pc' = [pc EXCEPT ![w] = "task_done"]
    /\ UNCHANGED <<jobVars, pipeVars, funVars, fetch_count, released, injected, task_queue, semaphore, completion_semaphore,
                   result_data, running, task, processed_data, ins_i,
                   ownerPc, loop_i, task_count, total_tasks, result_image,
                   missing, raised, saved, exit_status>>

\* self.task_queue.task_done(); self.completion_semaphore.release()
\* (task, processed_data and i are dead until the next iteration sets them)
WComplete(w) ==
    /\ pc[w] = "task_done"
    /\ completion_semaphore' = completion_semaphore + 1
    /\ task' = [task EXCEPT ![w] = NoTask]
    /\ processed_data' = [processed_data EXCEPT ![w] = <<>>]
    /\ ins_i' = [ins_i EXCEPT ![w] = 0]
    /\ pc' = [pc EXCEPT ![w] = "check"]
    /\ released' = released + 1
    /\ UNCHANGED <<jobVars, pipeVars, funVars, fetch_count, injected, task_queue, semaphore,
                   result_data, locked, running,
                   ownerPc, loop_i, task_count, total_tasks, result_image,
                   missing, raised, saved, exit_status>>

WorkerNext(w) ==
    \/ WCheck(w)
    \/ WAcquire(w)
    \/ WGet(w)
    \/ WEmpty(w)
    \/ WProcess(w)
    \/ WRaise(w)
    \/ WLock(w)
    \/ WInsert(w)
    \/ WUnlock(w)
    \/ WComplete(w)

-----------------------------------------------------------------------------
(* main_worker, the owner thread *)

\* processor.create_tasks(image.h, rows_per_task): the tasks are put on the
\* queue and the semaphore is released once per task (no worker exists yet)
create_tasksShort ==
    /\ ownerPc = "create_tasks"
    /\ task_queue' = task_queue
            \o create_tasks_from(0, image.h, rows_per_task(image.h, nthreads))
    /\ task_count' = Len(task_queue') - Len(task_queue)
    /\ semaphore' = semaphore + Max(0, task_count' - 1)
    /\ ownerPc' = "start_threads"
    /\ loop_i' = 0
    /\ UNCHANGED <<jobVars, pipeVars, funVars, fetch_count, released, injected, completion_semaphore, result_data, locked,
                   pc, running, task, processed_data, ins_i, total_tasks,
                   result_image, missing, raised, saved, exit_status>>
create_tasks ==
    /\ ownerPc = "create_tasks"
    /\ task_queue' = task_queue
            \o create_tasks_from(0, image.h, rows_per_task(image.h, nthreads))
    /\ task_count' = Len(task_queue') - Len(task_queue)
    /\ semaphore' = semaphore + task_count'
    /\ ownerPc' = "start_threads"
    /\ loop_i' = 0
    /\ UNCHANGED <<jobVars, pipeVars, funVars, fetch_count, released, injected, completion_semaphore, result_data, locked,
                   pc, running, task, processed_data, ins_i, total_tasks,
                   result_image, missing, raised, saved, exit_status>>

\* start_threads: one iteration, thread.start() of worker loop_i
start_threads ==
    /\ ownerPc = "start_threads"
    /\ loop_i < nthreads
    /\ pc' = [pc EXCEPT ![loop_i] = "check"]
    /\ loop_i' = loop_i + 1
    /\ UNCHANGED <<jobVars, pipeVars, funVars, fetch_count, released, injected, task_queue, semaphore, completion_semaphore,
                   result_data, locked, running, task, processed_data, ins_i,
                   ownerPc, task_count, total_tasks, result_image,
                   missing, raised, saved, exit_status>>

\* total_tasks = processor.task_queue.qsize(), read after start_threads
qsize ==
    /\ ownerPc = "start_threads"
    /\ loop_i = nthreads
    /\ total_tasks' = Len(task_queue)
    /\ ownerPc' = "wait_for_completion"
    /\ loop_i' = 0
    /\ UNCHANGED <<jobVars, pipeVars, funVars, fetch_count, released, injected, task_queue, semaphore, completion_semaphore,
                   result_data, locked, pc, running, task, processed_data,
                   ins_i, task_count, result_image,
                   missing, raised, saved, exit_status>>

\* wait_for_completion: one self.completion_semaphore.acquire()
wait_for_completion ==
    /\ ownerPc = "wait_for_completion"
    /\ loop_i < total_tasks
    /\ completion_semaphore > 0
    /\ completion_semaphore' = completion_semaphore - 1
    /\ loop_i' = loop_i + 1
    /\ UNCHANGED <<jobVars, pipeVars, funVars, fetch_count, released, injected, task_queue, semaphore,
                   result_data, locked, pc, running, task, processed_data,
                   ins_i, ownerPc, task_count, total_tasks, result_image,
                   missing, raised, saved, exit_status>>

\* wait_for_completion returns; assemble_result allocates
\* result_image.data = bytearray(image.w * image.h)
assemble_start ==
    /\ ownerPc = "wait_for_completion"
    /\ loop_i = total_tasks
    /\ result_image' = bytearray(image.w * image.h)
    /\ ownerPc' = "assemble_result"
    /\ loop_i' = 0
    /\ UNCHANGED <<jobVars, pipeVars, funVars, fetch_count, released, injected, task_queue, semaphore, completion_semaphore,
                   result_data, locked, pc, running, task, processed_data,
                   ins_i, task_count, total_tasks,
                   missing, raised, saved, exit_status>>

\* assemble_result: one iteration of the row loop; a row that is not in the
\* store is only warned about
assemble_row ==
    /\ ownerPc = "assemble_result"
    /\ loop_i < image.h
    /\ IF loop_i \in DOMAIN result_data
       THEN /\ result_image' = set_pixel_row(result_image, image.w, image.h,
                                             loop_i, result_data[loop_i])
            /\ UNCHANGED missing
       ELSE /\ missing' = missing \cup {loop_i}
            /\ UNCHANGED result_image
    /\ loop_i' = loop_i + 1
    /\ UNCHANGED <<jobVars, pipeVars, funVars, fetch_count, released, injected, task_queue, semaphore, completion_semaphore,
                   result_data, locked, pc, running, task, processed_data,
                   ins_i, ownerPc, task_count, total_tasks,
                   raised, saved, exit_status>>

\* assemble_result returns; stop_threads begins
assemble_done ==
    /\ ownerPc = "assemble_result"
    /\ loop_i = image.h
    /\ ownerPc' = "stop_flags"
    /\ loop_i' = 0
    /\ UNCHANGED <<jobVars, pipeVars, funVars, fetch_count, released, injected, task_queue, semaphore, completion_semaphore,
                   result_data, locked, pc, running, task, processed_data,
                   ins_i, task_count, total_tasks, result_image,
                   missing, raised, saved, exit_status>>

\* stop_threads, first loop: thread.running = False for worker loop_i
stop_flag ==
    /\ ownerPc = "stop_flags"
    /\ running' = [running EXCEPT ![loop_i] = FALSE]
    /\ IF loop_i + 1 < nthreads
       THEN loop_i' = loop_i + 1 /\ UNCHANGED ownerPc
       ELSE loop_i' = 0 /\ ownerPc' = "stop_release"
    /\ UNCHANGED <<jobVars, pipeVars, funVars, fetch_count, released, injected, task_queue, semaphore, completion_semaphore,
                   result_data, locked, pc, task, processed_data,
                   ins_i, task_count, total_tasks, result_image,
                   missing, raised, saved, exit_status>>

\* stop_threads, second loop: one self.semaphore.release()
stop_release ==
    /\ ownerPc = "stop_release"
    /\ loop_i < ShutdownUnits(nthreads)
    /\ semaphore' = semaphore + 1
    /\ loop_i' = loop_i + 1
    /\ injected' = injected + 1
    /\ UNCHANGED <<jobVars, pipeVars, funVars, fetch_count, released, task_queue, completion_semaphore,
                   result_data, locked, pc, running, task, processed_data,
                   ins_i, ownerPc, task_count, total_tasks, result_image,
                   missing, raised, saved, exit_status>>

\* stop_threads, the releases are done and the join loop begins
stop_join_start ==
    /\ ownerPc = "stop_release"
    /\ loop_i = ShutdownUnits(nthreads)
    /\ ownerPc' = "stop_join"
    /\ loop_i' = 0
    /\ UNCHANGED <<jobVars, pipeVars, funVars, fetch_count, released, injected, task_queue, semaphore, completion_semaphore,
                   result_data, locked, pc, running, task, processed_data,
                   ins_i, task_count, total_tasks, result_image,
                   missing, raised, saved, exit_status>>

\* stop_threads, third loop: thread.join() of worker loop_i returns once
\* that worker has left run()
stop_join ==
    /\ ownerPc = "stop_join"
    /\ pc[loop_i] = "finished"
    /\ IF loop_i + 1 < nthreads
       THEN loop_i' = loop_i + 1 /\ UNCHANGED ownerPc
       ELSE loop_i' = 0 /\ ownerPc' = "save_to_file"
    /\ UNCHANGED <<jobVars, pipeVars, funVars, fetch_count, released, injected, task_queue, semaphore, completion_semaphore,
                   result_data, locked, pc, running, task, processed_data,
                   ins_i, task_count, total_tasks, result_image,
                   missing, raised, saved, exit_status>>

\* result_image.save_to_file(output_image_path) succeeds and main_worker
\* returns: the process exits with status 0
save_to_file ==
    /\ ownerPc = "save_to_file"
    /\ saved' = TRUE
    /\ exit_status' = 0
    /\ ownerPc' = "done"
    /\ UNCHANGED <<jobVars, pipeVars, funVars, fetch_count, released, injected, task_queue, semaphore, completion_semaphore,
                   result_data, locked, pc, running, task, processed_data,
                   ins_i, loop_i, task_count, total_tasks, result_image,
                   missing, raised>>

OwnerNext ==
    \/ create_tasks
    \/ start_threads
    \/ qsize
    \/ wait_for_completion
    \/ assemble_start
    \/ assemble_row
    \/ assemble_done
    \/ stop_flag
    \/ stop_release
    \/ stop_join_start
    \/ stop_join
    \/ save_to_file

Next ==
    \/ create_tasks
    \/ start_threads
    \/ qsize
    \/ wait_for_completion
    \/ assemble_start
    \/ assemble_row
    \/ assemble_done
    \/ stop_flag
    \/ stop_release
    \/ stop_join_start
    \/ stop_join
    \/ save_to_file
    \/ \E w \in Workers : WCheck(w)
    \/ \E w \in Workers : WAcquire(w)
    \/ \E w \in Workers : WGet(w)
    \/ \E w \in Workers : WEmpty(w)
    \/ \E w \in Workers : WProcess(w)
    \/ \E w \in Workers : WRaise(w)
    \/ \E w \in Workers : WLock(w)
    \/ \E w \in Workers : WInsert(w)
    \/ \E w \in Workers : WUnlock(w)
    \/ \E w \in Workers : WComplete(w)

Spec == Init /\ [][Next]_vars

\* the threads are scheduled by the operating system: a thread that can
\* take a step is not held back forever
FairSpec ==
    /\ Spec
    /\ WF_vars(OwnerNext)
    /\ \A w \in 0..(MaxN - 1) : WF_vars(w \in Workers /\ WorkerNext(w))

-----------------------------------------------------------------------------
(* create_tasks alone, over larger heights and worker counts *)

PartInit ==
    /\ image \in { [w |-> 0, h |-> h, maxv |-> 255, data |-> <<>>] :
                      h \in 0..MaxPartH }
    /\ mode = 0
    /\ t1 = 0
    /\ t2 = 0
    /\ nthreads \in 1..MaxPartN
    /\ InitPool
    /\ PipeDone
    /\ InitFun

PartNext == create_tasks

PartSpec == PartInit /\ [][PartNext]_vars

-----------------------------------------------------------------------------
(* The filters alone (filters.py), over every sample value *)

\* the pool and the pipe at rest while a function is under test
RestInit ==
    /\ image = [w |-> 0, h |-> 0, maxv |-> 255, data |-> <<>>]
    /\ mode = 0
    /\ t1 = 0
    /\ t2 = 0
    /\ nthreads = 1
    /\ InitPool
    /\ PipeDone

FilterThresholds == {<<50, 200>>, <<20, 40>>, <<200, 50>>}
FilterMaxv == {255, 100}

\* images of one sample, for every sample value, and the larger images
FilterImages ==
    { [w |-> 1, h |-> 1, maxv |-> mv, data |-> <<r>>] :
        r \in 0..MaxSample, mv \in FilterMaxv }
    \cup { im \in Images(1..MaxFilterH) : im.w > 1 \/ im.h > 1 }

FilterInit ==
    /\ \E im \in FilterImages, th \in FilterThresholds :
       \E rs \in 0..im.h :
       \E re \in rs..im.h :
          /\ im.w * im.h = 1 => (rs = 0 /\ re = 1)
          /\ fn_in = [img |-> im, row_start |-> rs, row_end |-> re,
                      t1 |-> th[1], t2 |-> th[2]]
    /\ fn_out = NoFn
    /\ RestInit

\* apply_negative_filter over [row_start, row_end), and once more over the
\* rows it returned (as the buffer of an image of row_end - row_start rows)
negative_twice ==
    /\ ~ fn_out.done
    /\ LET once == apply_negative_filter(fn_in.img, fn_in.row_start, fn_in.row_end)
           rows == fn_in.row_end - fn_in.row_start
           img2 == [w |-> fn_in.img.w, h |-> rows, maxv |-> fn_in.img.maxv,
                    data |-> once]
       IN  fn_out' = [done |-> TRUE, kind |-> "negative", once |-> once,
                      twice |-> apply_negative_filter(img2, 0, rows)]
    /\ UNCHANGED <<jobVars, pipeVars, poolVars, fn_in>>

\* apply_slice_filter over [row_start, row_end)
slice_once ==
    /\ ~ fn_out.done
    /\ fn_out' = [done |-> TRUE, kind |-> "slice",
                  out |-> apply_slice_filter(fn_in.img, fn_in.row_start,
                                             fn_in.row_end, fn_in.t1, fn_in.t2)]
    /\ UNCHANGED <<jobVars, pipeVars, poolVars, fn_in>>

FilterNext == negative_twice \/ slice_once

FilterSpec == FilterInit /\ [][FilterNext]_vars

-----------------------------------------------------------------------------
(* The header codec alone (sender.py: ImageHeader) *)

U32Samples == {0, 3, 4, 255, 65537, 2147483647}
RawBytes == {0, 1, 127}

HeaderInit ==
    /\ \/ \E w \in U32Samples, h \in U32Samples, mv \in U32Samples,
             m \in U32Samples, a \in U32Samples, b \in U32Samples :
             fn_in = [kind |-> "fields",
                      hd |-> [w |-> w, h |-> h, maxv |-> mv, mode |-> m,
                              t1 |-> a, t2 |-> b]]
       \/ \E n \in 0..MaxRawLen, c \in RawBytes :
             fn_in = [kind |-> "bytes", data |-> [k \in 1..n |-> c]]
    /\ fn_out = NoFn
    /\ RestInit

\* ImageHeader(...).pack() and ImageHeader.unpack of the bytes it returned
pack_unpack ==
    /\ ~ fn_out.done
    /\ fn_in.kind = "fields"
    /\ LET packed == pack(fn_in.hd)
       IN  fn_out' = [done |-> TRUE, packed |-> packed,
                      unpacked |-> unpack(packed.data)]
    /\ UNCHANGED <<jobVars, pipeVars, poolVars, fn_in>>

\* ImageHeader.unpack of a byte string
unpack_bytes ==
    /\ ~ fn_out.done
    /\ fn_in.kind = "bytes"
    /\ fn_out' = [done |-> TRUE, unpacked |-> unpack(fn_in.data)]
    /\ UNCHANGED <<jobVars, pipeVars, poolVars, fn_in>>

HeaderNext == pack_unpack \/ unpack_bytes

HeaderSpec == HeaderInit /\ [][HeaderNext]_vars

-----------------------------------------------------------------------------
(* The two processes and the named pipe: main_sender / send_image_data
   (sender.py) and main_worker / receive_image_data (worker.py) *)

\* receive_image_data: expected_size = header.w * header.h
expected_sizeRows(hd) == hd.h
expected_size(hd) == hd.w * hd.h

\* receive_image_data: the check len(image.data) != expected_size passes
PixelsOkAny(data, expected) == TRUE
PixelsOk(data, expected) == Len(data) = expected

\* the number of bytes a write delivered before it raised
PrefixLens(n) == {0} \cup {k \in {n \div 2, n - 1} : 0 <= k /\ k < n}

\* mode, t1, t2 given to send_image_data (main_sender passes 0, 0, 0; the
\* other values stand for other callers)
SenderJobs == {<<0, 0, 0>>, <<1, 300, 40>>, <<2, 0, 0>>}

\* mode, t1, t2 on the command line of worker.py
ConsumerArgs == {<<-1, None, None>>, <<0, None, None>>, <<1, 20, 40>>,
                 <<1, 20, None>>}

\* both processes have been started; the pipe may or may not exist yet
PipeInit ==
    /\ fifo_exists \in BOOLEAN
    /\ fifo = <<>>
    /\ writer = "none"
    /\ reader = "none"
    /\ senderPc = "create_fifo"
    /\ sender_exit = NoExit
    /\ s_image \in Images(0..MaxPipeH)
    /\ \E job \in SenderJobs :
          s_mode = job[1] /\ s_t1 = job[2] /\ s_t2 = job[3]
    /\ \E args \in ConsumerArgs :
          mode_arg = args[1] /\ t1_arg = args[2] /\ t2_arg = args[3]
    /\ nthreads \in 1..MaxPipeN
    /\ s_image.h * nthreads <= MaxPipeWork
    /\ image = [w |-> 0, h |-> 0, maxv |-> 255, data |-> <<>>]
    /\ mode = mode_arg
    /\ t1 = t1_arg
    /\ t2 = t2_arg
    /\ received = [mode |-> 0, t1 |-> 0, t2 |-> 0]
    /\ sent_bytes = 0
    /\ io_error = FALSE
    /\ recv_error = "none"
    /\ InitPoolState
    /\ ownerPc = "check_args"
    /\ InitFun

\* main_sender: create_fifo(fifo_path) makes the pipe unless it exists
create_fifo ==
    /\ senderPc = "create_fifo"
    /\ fifo_exists' = TRUE
    /\ senderPc' = "open"
    /\ UNCHANGED <<jobVars, poolVars, funVars, argVars, fifo, writer, reader,
                   sender_exit, received, sent_bytes, io_error, recv_error>>

\* send_image_data: open(fifo_path, 'wb') is called; it returns once a
\* reader has the pipe open
s_open ==
    /\ senderPc = "open"
    /\ IF reader = "waiting"
       THEN writer' = "open" /\ reader' = "open"
       ELSE writer' = "waiting" /\ UNCHANGED reader
    /\ senderPc' = "opening"
    /\ UNCHANGED <<jobVars, poolVars, funVars, argVars, fifo_exists, fifo,
                   sender_exit, received, sent_bytes, io_error, recv_error>>

s_open_return ==
    /\ senderPc = "opening"
    /\ writer = "open"
    /\ senderPc' = "write_header"
    /\ UNCHANGED <<jobVars, poolVars, funVars, argVars, fifo_exists, fifo,
                   writer, reader, sender_exit, received, sent_bytes,
                   io_error, recv_error>>

\* send_image_data: fifo.write(header.pack()); fifo.flush(). A struct.error
\* of pack is caught like any exception: the pipe is closed, False is
\* returned and main_sender exits with status 1
s_write_header ==
    /\ senderPc = "write_header"
    /\ LET header_data == pack([w |-> s_image.w, h |-> s_image.h,
                                maxv |-> s_image.maxv, mode |-> s_mode,
                                t1 |-> s_t1, t2 |-> s_t2])
       IN  IF header_data.ok
           THEN /\ fifo' = fifo \o header_data.data
                /\ sent_bytes' = sent_bytes + Len(header_data.data)
                /\ senderPc' = "write_pixels"
                /\ UNCHANGED <<writer, io_error, sender_exit>>
           ELSE /\ writer' = "closed"
                /\ io_error' = TRUE
                /\ sender_exit' = 1
                /\ senderPc' = "done"
                /\ UNCHANGED <<fifo, sent_bytes>>
    /\ UNCHANGED <<jobVars, poolVars, funVars, argVars, fifo_exists, reader,
                   received, recv_error>>

\* send_image_data: fifo.write(image.data); fifo.flush(). Writing bytes to
\* a pipe whose reader is gone raises BrokenPipeError
s_write_pixels ==
    /\ senderPc = "write_pixels"
    /\ IF reader = "closed" /\ Len(s_image.data) > 0
       THEN /\ writer' = "closed"
            /\ io_error' = TRUE
            /\ sender_exit' = 1
            /\ senderPc' = "done"
            /\ UNCHANGED <<fifo, sent_bytes>>
       ELSE /\ fifo' = fifo \o s_image.data
            /\ sent_bytes' = sent_bytes + Len(s_image.data)
            /\ senderPc' = "close"
            /\ UNCHANGED <<writer, io_error, sender_exit>>
    /\ UNCHANGED <<jobVars, poolVars, funVars, argVars, fifo_exists, reader,
                   received, recv_error>>

\* send_image_data, except Exception: a write raises after it delivered k
\* bytes; the with block closes the pipe, False is returned and main_sender
\* exits with status 1
s_write_fails ==
    /\ senderPc \in {"write_header", "write_pixels"}
    /\ LET bytes == IF senderPc = "write_header"
                    THEN pack([w |-> s_image.w, h |-> s_image.h,
                               maxv |-> s_image.maxv, mode |-> s_mode,
                               t1 |-> s_t1, t2 |-> s_t2]).data
                    ELSE s_image.data
       IN  \E k \in PrefixLens(Len(bytes)) :
              /\ fifo' = fifo \o SubSeq(bytes, 1, k)
              /\ sent_bytes' = sent_bytes + k
    /\ writer' = "closed"
    /\ io_error' = TRUE
    /\ sender_exit' = 1
    /\ senderPc' = "done"
    /\ UNCHANGED <<jobVars, poolVars, funVars, argVars, fifo_exists, reader,
                   received, recv_error>>

\* send_image_data leaves the with block and returns True; main_sender
\* returns: the process exits with status 0
s_close ==
    /\ senderPc = "close"
    /\ writer' = "closed"
    /\ sender_exit' = 0
    /\ senderPc' = "done"
    /\ UNCHANGED <<jobVars, poolVars, funVars, argVars, fifo_exists, fifo,
                   reader, received, sent_bytes, io_error, recv_error>>

\* main_worker: if mode == 1 and a threshold is None: sys.exit(1)
c_check_argsAnd ==
    /\ ownerPc = "check_args"
    /\ IF mode = 1 /\ (t1 = None /\ t2 = None)
       THEN exit_status' = 1 /\ ownerPc' = "done"
       ELSE ownerPc' = "open_fifo" /\ UNCHANGED exit_status
    /\ UNCHANGED <<jobVars, workVars, funVars, pipeVars>>
c_check_args ==
    /\ ownerPc = "check_args"
    /\ IF mode = 1 /\ (t1 = None \/ t2 = None)
       THEN exit_status' = 1 /\ ownerPc' = "done"
       ELSE ownerPc' = "open_fifo" /\ UNCHANGED exit_status
    /\ UNCHANGED <<jobVars, workVars, funVars, pipeVars>>

\* receive_image_data: open(fifo_path, 'rb') is called; with no file of
\* that name it raises FileNotFoundError, which main_worker turns into
\* sys.exit(1); otherwise it returns once a writer has the pipe open
c_open ==
    /\ ownerPc = "open_fifo"
    /\ IF ~ fifo_exists
       THEN /\ recv_error' = "open"
            /\ exit_status' = 1
            /\ ownerPc' = "done"
            /\ UNCHANGED <<reader, writer>>
       ELSE /\ IF writer = "waiting"
               THEN reader' = "open" /\ writer' = "open"
               ELSE reader' = "waiting" /\ UNCHANGED writer
            /\ ownerPc' = "opening"
            /\ UNCHANGED <<recv_error, exit_status>>
    /\ UNCHANGED <<jobVars, workVars, funVars, argVars, fifo_exists, fifo,
                   senderPc, sender_exit, received, sent_bytes, io_error>>

c_open_return ==
    /\ ownerPc = "opening"
    /\ reader = "open"
    /\ ownerPc' = "read_header"
    /\ UNCHANGED <<jobVars, workVars, funVars, pipeVars, exit_status>>

\* receive_image_data: header_data = fifo.read(24) returns when 24 bytes
\* have arrived or the write end was closed; a short header raises
\* ValueError, else image = PGMImage(header.w, header.h, header.maxv)
c_read_header ==
    /\ ownerPc = "read_header"
    /\ Len(fifo) >= HeaderSize \/ writer = "closed"
    /\ LET n == Min(HeaderSize, Len(fifo))
           header == unpack(SubSeq(fifo, 1, n))
       IN  /\ fifo' = SubSeq(fifo, n + 1, Len(fifo))
           /\ IF header.ok
              THEN /\ image' = [w |-> header.w, h |-> header.h,
                                maxv |-> header.maxv, data |-> <<>>]
                   /\ received' = [mode |-> header.mode, t1 |-> header.t1,
                                   t2 |-> header.t2]
                   /\ ownerPc' = "read_pixels"
                   /\ UNCHANGED <<reader, recv_error, exit_status>>
              ELSE /\ recv_error' = "header"
                   /\ reader' = "closed"
                   /\ exit_status' = 1
                   /\ ownerPc' = "done"
                   /\ UNCHANGED <<image, received>>
    /\ UNCHANGED <<mode, t1, t2, nthreads, workVars, funVars, argVars,
                   fifo_exists, writer, senderPc, sender_exit, sent_bytes,
                   io_error>>

\* receive_image_data: image.data = fifo.read(expected_size) returns when
\* that many bytes have arrived or the write end was closed; a short read
\* raises ValueError; else the pipe is closed and the image is returned
c_read_pixels ==
    /\ ownerPc = "read_pixels"
    /\ Len(fifo) >= expected_size(image) \/ writer = "closed"
    /\ LET n == Min(expected_size(image), Len(fifo))
           data == SubSeq(fifo, 1, n)
       IN  /\ fifo' = SubSeq(fifo, n + 1, Len(fifo))
           /\ IF PixelsOk(data, expected_size(image))
              THEN /\ image' = [image EXCEPT !.data = data]
                   /\ ownerPc' = "resolve_mode"
                   /\ UNCHANGED <<recv_error, exit_status>>
              ELSE /\ recv_error' = "pixels"
                   /\ exit_status' = 1
                   /\ ownerPc' = "done"
                   /\ UNCHANGED image
    /\ reader' = "closed"
    /\ UNCHANGED <<mode, t1, t2, nthreads, workVars, funVars, argVars,
                   fifo_exists, writer, senderPc, sender_exit, received,
                   sent_bytes, io_error>>

\* main_worker: if mode == -1 the received mode, t1 and t2 are used; then
\* the pool is constructed
resolve_modeAlways ==
    /\ ownerPc = "resolve_mode"
    /\ mode' = received.mode
    /\ t1' = received.t1
    /\ t2' = received.t2
    /\ ownerPc' = "create_tasks"
    /\ UNCHANGED <<image, nthreads, workVars, funVars, pipeVars, exit_status>>
resolve_mode ==
    /\ ownerPc = "resolve_mode"
    /\ IF mode = -1
       THEN /\ mode' = received.mode
            /\ t1' = received.t1
            /\ t2' = received.t2
       ELSE UNCHANGED <<mode, t1, t2>>
    /\ ownerPc' = "create_tasks"
    /\ UNCHANGED <<image, nthreads, workVars, funVars, pipeVars, exit_status>>

PipeNext ==
    \/ create_fifo
    \/ s_open
    \/ s_open_return
    \/ s_write_header
    \/ s_write_pixels
    \/ s_write_fails
    \/ s_close
    \/ c_check_args
    \/ c_open
    \/ c_open_return
    \/ c_read_header
    \/ c_read_pixels
    \/ resolve_mode
    \/ create_tasks
    \/ start_threads
    \/ qsize
    \/ wait_for_completion
    \/ assemble_start
    \/ assemble_row
    \/ assemble_done
    \/ stop_flag
    \/ stop_release
    \/ stop_join_start
    \/ stop_join
    \/ save_to_file
    \/ \E w \in Workers : WCheck(w)
    \/ \E w \in Workers : WAcquire(w)
    \/ \E w \in Workers : WGet(w)
    \/ \E w \in Workers : WEmpty(w)
    \/ \E w \in Workers : WProcess(w)
    \/ \E w \in Workers : WRaise(w)
    \/ \E w \in Workers : WLock(w)
    \/ \E w \in Workers : WInsert(w)
    \/ \E w \in Workers : WUnlock(w)
    \/ \E w \in Workers : WComplete(w)

PipeSpec == PipeInit /\ [][PipeNext]_vars

-----------------------------------------------------------------------------
(* Properties *)

\* worker w has dequeued a task and is processing or publishing it
InFlight(w) == pc[w] \in {"process", "lock", "insert", "task_done"}

\* worker w is inside the row-insert section of run()
InInsertSection(w) == pc[w] = "insert"

OwnerReadQsize == ownerPc \notin {"create_tasks", "start_threads"}

AllFinished == \A w \in Workers : pc[w] = "finished"

\* C1: the owner waits for as many completion units as create_tasks made
\* tasks, and while assemble_result runs no task is queued, being processed
\* or being published.
C1_WaitsForEveryTask ==
    /\ OwnerReadQsize => total_tasks = task_count
    /\ ownerPc = "assemble_result" =>
          (task_queue = <<>> /\ \A w \in Workers : ~ InFlight(w))

\* C2: at most one worker is inside the result-store insert section.
C2_OneInserterAtATime ==
    Cardinality({w \in Workers : InInsertSection(w)}) <= 1

\* C3: once a worker has caught an exception from Processing or Publishing,
\* the job eventually ends (the owner does not wait forever).
C3_RaiseDoesNotBlockOwner ==
    (raised > 0) ~> (exit_status # NoExit)

\* C4: when assemble_result found a row missing from the result store, the
\* output image is not persisted and the job does not end with status 0.
C4_MissingRowNotPersisted ==
    missing # {} => (~ saved /\ exit_status # 0)

\* C5: for a valid mode, when wait_for_completion has returned the result
\* store holds exactly the rows 0..H-1, each of length W.
C5_StoreCompleteAtCompletion ==
    (mode \in {0, 1} /\ ownerPc = "assemble_result" /\ loop_i = 0) =>
        /\ DOMAIN result_data = 0..(image.h - 1)
        /\ \A r \in DOMAIN result_data : Len(result_data[r]) = image.w

\* C6: the persisted output depends on the image, mode and thresholds only,
\* not on the worker count or the schedule: it is always the buffer that
\* one pass of the filter over rows [0, H) gives.
C6_OutputIndependentOfSchedule ==
    (mode \in {0, 1} /\ saved) =>
        result_image = process_image_rows(image, 0, image.h, mode, t1, t2).data

\* C7: for mode negative every sample of the persisted output is 255 minus
\* the input sample at the same row-major index.
C7_NegativeEndToEnd ==
    (mode = 0 /\ saved) =>
        /\ Len(result_image) = Len(image.data)
        /\ \A k \in 1..Len(image.data) : result_image[k] = 255 - image.data[k]

\* C8: with rowsPerTask = max(1, H div (N*4)), the tasks create_tasks
\* enqueued are in ascending row order, each has
\* 0 <= row_start < row_end <= H and at most rowsPerTask rows, and every
\* row of [0, H) lies in exactly one task.
C8_TasksPartitionRows ==
    ownerPc = "start_threads" =>
        LET H == image.h
            rpt == IF H \div (nthreads * 4) > 1 THEN H \div (nthreads * 4) ELSE 1
            q == task_queue
        IN  /\ \A k \in 1..Len(q) :
                  /\ 0 <= q[k].row_start
                  /\ q[k].row_start < q[k].row_end
                  /\ q[k].row_end <= H
                  /\ q[k].row_end - q[k].row_start <= rpt
            /\ \A k \in 1..(Len(q) - 1) : q[k].row_end <= q[k + 1].row_start
            /\ \A r \in 0..(H - 1) :
                  Cardinality({k \in 1..Len(q) :
                      q[k].row_start <= r /\ r < q[k].row_end}) = 1

\* C8 witness: create_tasks made several tasks of more than one row and a
\* shorter last one
C8_Witness ==
    /\ ownerPc = "start_threads"
    /\ Len(task_queue) >= 3
    /\ task_queue[1].row_end - task_queue[1].row_start >= 2
    /\ task_queue[Len(task_queue)].row_end
          - task_queue[Len(task_queue)].row_start
          < task_queue[1].row_end - task_queue[1].row_start

\* C9: for a mode other than 0 and 1 no task is put on the queue and no
\* worker enters Processing.
C9_InvalidModeEnqueuesNothing ==
    mode \notin {0, 1} =>
        /\ task_queue = <<>>
        /\ task_count = 0
        /\ \A w \in Workers : pc[w] # "process"

\* C10: once stop_threads is called, every worker eventually leaves run()
\* and every join returns.
C10_ShutdownCompletes ==
    (ownerPc = "stop_flags") ~>
        (AllFinished /\ ownerPc \in {"save_to_file", "done"})

\* C10 witness: every join has returned although a task was left on the
\* queue and more than one worker had to be stopped
C10_Witness ==
    /\ ownerPc = "save_to_file"
    /\ AllFinished
    /\ nthreads > 1
    /\ task_queue # <<>>

\* workers that hold a fetch permit: acquired, not yet dequeued
PermitsHeld == Cardinality({w \in Workers : pc[w] = "get"})

\* C11: the fetch permits outstanding (semaphore value plus permits held by
\* workers that acquired and have not dequeued yet) never exceed the tasks
\* still queued plus the shutdown units injected.
C11_PermitsBoundedByWork ==
    semaphore + PermitsHeld <= Len(task_queue) + injected

\* C15: for an image of height 0 no task is enqueued, the wait for completion
\* needs no completion unit, the assembled buffer is empty, and stop_threads
\* leads to the termination of all N workers.
C15_ZeroHeightJob ==
    /\ [](image.h = 0 =>
            /\ task_queue = <<>>
            /\ task_count = 0
            /\ ownerPc = "wait_for_completion" => loop_i = total_tasks
            /\ ownerPc \in {"assemble_result", "stop_flags", "stop_release",
                            "stop_join", "save_to_file", "done"}
                  => result_image = <<>>)
    /\ (image.h = 0 /\ ownerPc = "stop_flags") ~>
            (AllFinished /\ ownerPc \in {"save_to_file", "done"})

\* C15 witness: a job of height 0 with several workers has ended
C15_Witness ==
    /\ image.h = 0
    /\ nthreads > 1
    /\ ownerPc = "done"
    /\ AllFinished
    /\ result_image = <<>>

\* C19: no task is dequeued more than once, and no two workers hold the
\* same task.
C19_TaskDequeuedOnce ==
    /\ \A r \in DOMAIN fetch_count : fetch_count[r] <= 1
    /\ \A w1, w2 \in Workers :
          (w1 # w2 /\ InFlight(w1) /\ InFlight(w2)) => task[w1] # task[w2]

\* C19 witness: two workers hold tasks at the same time while a further
\* task is still queued
C19_Witness ==
    /\ task_queue # <<>>
    /\ \E w1, w2 \in Workers : w1 # w2 /\ InFlight(w1) /\ InFlight(w2)

\* the tasks of the job whose rows are all in the result store
PublishedTasks ==
    LET T == create_tasks_from(0, image.h, rows_per_task(image.h, nthreads))
    IN  {k \in 1..Len(T) :
            \A r \in T[k].row_start..(T[k].row_end - 1) : r \in DOMAIN result_data}

\* C20: the completion units released so far never exceed the number of
\* tasks whose rows are all in the result store (one unit per task, released
\* after the task's last row was inserted).
C20_CompletionAfterPublish ==
    released <= Cardinality(PublishedTasks)

\* C20 witness: units were released for some tasks while another task of
\* the job is not published yet
C20_Witness ==
    /\ released >= 2
    /\ Cardinality(PublishedTasks) < task_count

\* C13: for six field values in the unsigned 32-bit range pack yields
\* exactly 24 bytes and unpack of them yields the same six values; unpack
\* rejects every byte string whose length is not 24.
C13_HeaderRoundTrip ==
    fn_out.done =>
        /\ fn_in.kind = "fields" =>
              /\ fn_out.packed.ok
              /\ Len(fn_out.packed.data) = 24
              /\ fn_out.unpacked.ok
              /\ fn_out.unpacked.w = fn_in.hd.w
              /\ fn_out.unpacked.h = fn_in.hd.h
              /\ fn_out.unpacked.maxv = fn_in.hd.maxv
              /\ fn_out.unpacked.mode = fn_in.hd.mode
              /\ fn_out.unpacked.t1 = fn_in.hd.t1
              /\ fn_out.unpacked.t2 = fn_in.hd.t2
        /\ fn_in.kind = "bytes" =>
              (Len(fn_in.data) # 24 => ~ fn_out.unpacked.ok)

\* C13 witness: the header 4 x 3, max 255, mode 0, t1 0, t2 0 went through
\* pack and unpack
C13_Witness ==
    /\ fn_out.done
    /\ fn_in.kind = "fields"
    /\ fn_in.hd = [w |-> 4, h |-> 3, maxv |-> 255, mode |-> 0, t1 |-> 0, t2 |-> 0]
    /\ fn_out.unpacked.ok

\* the samples of rows [row_start, row_end) of the image under test
FnRows ==
    SubSeq(fn_in.img.data, fn_in.row_start * fn_in.img.w + 1,
           fn_in.row_end * fn_in.img.w)

\* C17: the negative filter maps every sample r of the row range to 255 - r,
\* whatever the declared max-intensity, and applied twice it gives back the
\* original samples.
C17_NegativeTwiceIsIdentity ==
    (fn_out.done /\ fn_out.kind = "negative") =>
        /\ Len(fn_out.once) = Len(FnRows)
        /\ \A k \in 1..Len(FnRows) : fn_out.once[k] = 255 - FnRows[k]
        /\ fn_out.twice = FnRows

\* C17 witness: a sample above a declared max-intensity of 100 went through
\* the filter twice
C17_Witness ==
    /\ fn_out.done
    /\ fn_out.kind = "negative"
    /\ fn_in.img.maxv = 100
    /\ fn_in.img.data = <<200>>
    /\ fn_out.twice = <<200>>

ReceiveReturned == reader = "closed" /\ recv_error = "none"

\* C12: one send_image_data paired with one receive_image_data transfers
\* first the 24-byte header and then exactly width*height pixel bytes, and
\* the receiver returns the sender's width, height, max-intensity and pixel
\* bytes together with the sender's mode, t1 and t2.
C12_ChannelRoundTrip ==
    /\ ReceiveReturned =>
          /\ image = s_image
          /\ received = [mode |-> s_mode, t1 |-> s_t1, t2 |-> s_t2]
    /\ senderPc = "write_pixels" => sent_bytes = 24
    /\ (senderPc = "write_pixels" /\ ownerPc \in {"opening", "read_header"}) =>
          fifo = pack([w |-> s_image.w, h |-> s_image.h,
                       maxv |-> s_image.maxv, mode |-> s_mode,
                       t1 |-> s_t1, t2 |-> s_t2]).data
    /\ (senderPc \in {"close", "done"} /\ ~ io_error) =>
          sent_bytes = 24 + s_image.w * s_image.h

\* C12 witness: a 2 x 1 image sent with mode 1, t1 300, t2 40 was received
C12_Witness ==
    /\ ReceiveReturned
    /\ sender_exit = 0
    /\ s_image.w = 2
    /\ s_image.h = 1
    /\ image.data = s_image.data
    /\ received = [mode |-> 1, t1 |-> 300, t2 |-> 40]

\* C14: when the stream ends with fewer than 24 header bytes or fewer than
\* width*height pixel bytes, receive_image_data raises and the job is
\* aborted: no task is created, no worker is started, nothing is persisted,
\* the consumer has stopped (no second receive) with exit status 1.
C14_TruncatedStreamAborts ==
    /\ (reader = "closed" /\ sent_bytes < 24) => recv_error = "header"
    /\ (reader = "closed" /\ sent_bytes >= 24
          /\ sent_bytes < 24 + image.w * image.h) => recv_error = "pixels"
    /\ recv_error \in {"header", "pixels"} =>
          /\ ownerPc = "done"
          /\ exit_status = 1
          /\ reader = "closed"
          /\ task_count = 0
          /\ task_queue = <<>>
          /\ semaphore = 0
          /\ \A w \in Workers : pc[w] = "unstarted"
          /\ result_data = [r \in {} |-> <<>>]
          /\ ~ saved

\* C14 witness: the producer's pixel write failed part-way and the consumer
\* ended on the truncated-payload error
C14_Witness ==
    /\ recv_error = "pixels"
    /\ io_error
    /\ sent_bytes > 24
    /\ ownerPc = "done"
    /\ exit_status = 1

\* C16: with main_sender's job (mode negative) and a consumer started with
\* mode negative, neither process ends with a non-zero exit status unless a
\* write failed, and the consumer has persisted the output when it exits.
C16_BothExitZero ==
    (s_mode = 0 /\ s_t1 = 0 /\ s_t2 = 0 /\ mode_arg = 0 /\ ~ io_error) =>
        /\ exit_status \in {NoExit, 0}
        /\ sender_exit \in {NoExit, 0}
        /\ exit_status = 0 => saved

\* the rows worker w has still to insert for the task it holds
PendingRows(w) ==
    IF pc[w] \in {"process", "lock"}
    THEN task[w].row_start..(task[w].row_end - 1)
    ELSE IF pc[w] = "insert"
         THEN (task[w].row_start + ins_i[w])..(task[w].row_end - 1)
         ELSE {}

\* C21: each row of the result store is written at most once: a row a
\* worker has still to insert is not in the store yet, and no other worker
\* has the same row to insert.
C21_RowWrittenOnce ==
    \A w \in Workers : \A r \in PendingRows(w) :
        /\ r \notin DOMAIN result_data
        /\ \A v \in Workers : v # w => r \notin PendingRows(v)

\* C21 witness: one row is in the store while two workers each have a
\* further row to insert
C21_Witness ==
    /\ DOMAIN result_data # {}
    /\ \E w, v \in Workers :
          w # v /\ PendingRows(w) # {} /\ PendingRows(v) # {}

\* ceil(a / b) for b > 0
CeilDiv(a, b) == (a + b - 1) \div b

\* C23: when create_tasks returns, the available-work semaphore was
\* incremented by exactly the number of tasks enqueued, which is
\* ceil(H / rowsPerTask), and (no worker having run) it equals the queue
\* length.
C23_SemaphoreCountsTasks ==
    ownerPc = "start_threads" =>
        LET H == image.h
            rpt == IF H \div (nthreads * 4) > 1 THEN H \div (nthreads * 4) ELSE 1
        IN  /\ task_count = CeilDiv(H, rpt)
            /\ semaphore = task_count
            /\ semaphore = Len(task_queue)

\* C23 witness: create_tasks made tasks of several rows, the last one
\* shorter (H is not a multiple of rowsPerTask)
C23_Witness ==
    /\ ownerPc = "start_threads"
    /\ semaphore = 5
    /\ image.h = 33
    /\ nthreads = 1

\* C24: a worker that holds a fetch permit and finds the queue empty goes
\* back to the loop test; that step inserts nothing into the result store,
\* releases no completion unit and gives the permit back to the
\* available-work semaphore.
C24_EmptyFetchNoEffect ==
    [][\A w \in Workers :
          (pc[w] = "get" /\ pc'[w] # "get" /\ task_queue = <<>>) =>
              /\ pc'[w] = "check"
              /\ result_data' = result_data
              /\ completion_semaphore' = completion_semaphore
              /\ released' = released
              /\ raised' = raised
              /\ task_queue' = task_queue
              /\ semaphore' = semaphore + 1]_vars

\* C24 witness: every task was completed and a worker holds a permit for
\* the empty queue
C24_Witness ==
    /\ task_count >= 1
    /\ released = task_count
    /\ task_queue = <<>>
    /\ \E w \in Workers : pc[w] = "get"

\* the bytes of row r in the assembled buffer
AssembledRow(r) == SubSeq(result_image, r * image.w + 1, (r + 1) * image.w)

\* C25: the buffer assemble_result builds has exactly width*height bytes
\* and, for every row it found in the result store, the bytes of that row
\* equal the row's entry, whatever the order of the inserts.
C25_AssembledBuffer ==
    ownerPc \in {"assemble_result", "stop_flags", "stop_release", "stop_join",
                 "save_to_file", "done"} =>
        /\ Len(result_image) = image.w * image.h
        /\ \A r \in 0..(image.h - 1) :
              (r \notin missing
                  /\ (ownerPc = "assemble_result" => r < loop_i)) =>
                  /\ r \in DOMAIN result_data
                  /\ AssembledRow(r) = result_data[r]

\* C25 witness: assemble_result has returned a 2 x 3 buffer with every row
\* found in the store
C25_Witness ==
    /\ ownerPc = "stop_flags"
    /\ image.w = 2
    /\ image.h = 3
    /\ nthreads = 2
    /\ missing = {}
    /\ AssembledRow(2) = result_data[2]

\* C28: once assemble_result has started reading the result store no step
\* changes the store, and a worker whose running flag was cleared does not
\* start processing a task.
C28_StoreFrozenAtAssembly ==
    [][/\ ownerPc \in {"assemble_result", "stop_flags", "stop_release",
                       "stop_join", "save_to_file", "done"}
            => result_data' = result_data
       /\ \A w \in Workers :
            (~ running[w] /\ pc[w] # "process") => pc'[w] # "process"]_vars

\* C29: tasks in the queue + tasks held by workers (being processed or
\* published) + completion units released + tasks whose processing raised
\* = tasks created; the completion units released never exceed the tasks
\* created.
C29_TaskConservation ==
    ownerPc # "create_tasks" =>
        /\ Len(task_queue) + Cardinality({w \in Workers : InFlight(w)})
              + released + raised = task_count
        /\ released <= task_count

\* C29 witness: at one time a task is queued, one is held by a worker, one
\* was completed
C29_Witness ==
    /\ task_count = 3
    /\ Len(task_queue) = 1
    /\ Cardinality({w \in Workers : InFlight(w)}) = 1
    /\ released = 1

\* the owner is between the receipt of the job and the end of main_worker
JobReceived ==
    ownerPc \in {"create_tasks", "start_threads", "wait_for_completion",
                 "assemble_result", "stop_flags", "stop_release", "stop_join",
                 "save_to_file"}

\* C22: from job receipt until the pool is shut down no step of the owner
\* or of a worker changes the source image (width, height, max-intensity,
\* pixel buffer).
C22_SourceImageReadOnly ==
    [][JobReceived => image' = image]_vars

\* C22 witness: the pool has processed and assembled a received image and
\* the source image is still the one that was sent, while the bytes the
\* workers produced differ from it
C22_Witness ==
    /\ ownerPc = "stop_join"
    /\ image.h = 1
    /\ image = s_image
    /\ 0 \in DOMAIN result_data
    /\ result_data[0] # image.data

\* C26: a consumer started with mode range-threshold and a threshold absent
\* never opens the channel, enqueues no task and starts no worker, and ends
\* with a non-zero exit status.
C26_MissingThresholdRejected ==
    (mode_arg = 1 /\ (t1_arg = None \/ t2_arg = None)) =>
        /\ ownerPc \in {"check_args", "done"}
        /\ ownerPc = "done" => exit_status = 1
        /\ reader = "none"
        /\ recv_error = "none"
        /\ task_count = 0
        /\ task_queue = <<>>
        /\ \A w \in Workers : pc[w] = "unstarted"
        /\ ~ saved

\* C26 witness: the consumer called with mode 1, t1 20 and no t2 has
\* exited with status 1
C26_Witness ==
    /\ mode_arg = 1
    /\ t1_arg = 20
    /\ t2_arg = None
    /\ ownerPc = "done"
    /\ exit_status = 1

\* C27: after the receive, the mode and thresholds the pool applies are the
\* sender's exactly when the consumer's mode argument is -1; otherwise they
\* are the consumer's own arguments, and the output is the one these
\* arguments give whatever the header said.
C27_ModeSelection ==
    (ReceiveReturned /\ ownerPc # "resolve_mode") =>
        /\ mode_arg = -1 =>
              (mode = s_mode /\ t1 = s_t1 /\ t2 = s_t2)
        /\ mode_arg # -1 =>
              (mode = mode_arg /\ t1 = t1_arg /\ t2 = t2_arg)
        /\ (mode_arg \in {0, 1} /\ saved /\ missing = {}) =>
              result_image = process_image_rows(image, 0, image.h, mode_arg,
                                                t1_arg, t2_arg).data

\* C27 witness: a consumer started with mode -1 has saved the output of
\* the sender's mode 1, t1 300, t2 40
C27_Witness ==
    /\ mode_arg = -1
    /\ s_mode = 1
    /\ mode = 1
    /\ t1 = 300
    /\ t2 = 40
    /\ saved

====
